---- MODULE Spec2Model ----
(***************************************************************************)
(* A model of wot-rust's heterogeneous list (src/hlist.rs) and of the      *)
(* hypermedia records and builders of src/protocol/http.rs.                *)
(*                                                                         *)
(* Three state machines share the module:                                  *)
(*   SpecList    new_head / add / split_head on an H-list;                 *)
(*   SpecBuilder the ExpectedResponseBuilder call chain;                   *)
(*   SpecSerde   serialize / deserialize of typed values.  The derived     *)
(*               Serialize / Deserialize impls are modelled by an          *)
(*               interpreter of the serde attributes the source writes on  *)
(*               each struct (rename, flatten, default, skip-none,         *)
(*               one-or-many).                                             *)
(***************************************************************************)
EXTENDS Integers, Sequences, FiniteSets, TLC

VARIABLES
    list, hist, split,             \* SpecList
    bT, bld, calls, built,         \* SpecBuilder
    ty, val, doc, pert, out, doc2, phase   \* SpecSerde

listVars == <<list, hist, split>>
bldVars == <<bT, bld, calls, built>>
serdeVars == <<ty, val, doc, pert, out, doc2, phase>>
vars == <<list, hist, split, bT, bld, calls, built, ty, val, doc, pert, out, doc2, phase>>

(***************************************************************************)
(* Bounds of the model.                                                    *)
(***************************************************************************)
\* Longest Vec drawn as an input.
MaxLen == 2
\* Most Cons cells in an H-list type drawn as an input.
MaxCells == 2
\* Most elements pushed on the list of SpecList.
MaxElems == 4
\* Most setter calls chained on a builder in SpecBuilder.
MaxCalls == 4

(***************************************************************************)
(* Finite maps with string keys, and sequences.                            *)
(***************************************************************************)
EmptyMap == <<>>

Put(m, k, v) == [y \in DOMAIN m \cup {k} |-> IF y = k THEN v ELSE m[y]]

Restrict(m, ks) == [y \in DOMAIN m \cap ks |-> m[y]]

RECURSIVE SeqsUpTo(_, _)
SeqsUpTo(S, n) ==
    IF n = 0 THEN {<<>>}
    ELSE SeqsUpTo(S, n - 1) \cup {Append(s, x) : s \in {q \in SeqsUpTo(S, n - 1) : Len(q) = n - 1}, x \in S}

RECURSIVE Reverse(_)
Reverse(s) == IF s = <<>> THEN <<>> ELSE Append(Reverse(Tail(s)), Head(s))

(***************************************************************************)
(* JSON values (serde_json::Value).                                        *)
(***************************************************************************)
JNull == [t |-> "null"]
JBool(b) == [t |-> "bool", b |-> b]
JNum(n) == [t |-> "num", n |-> n]
JStr(s) == [t |-> "str", s |-> s]
JArr(a) == [t |-> "arr", a |-> a]
JObj(m) == [t |-> "obj", o |-> m]

\* serde_json's map serializer: every serialize_entry inserts into one Map,
\* so a key emitted twice keeps the value emitted last.
RECURSIVE InsertAll(_, _, _)
InsertAll(m, es, i) ==
    IF i > Len(es) THEN m ELSE InsertAll(Put(m, es[i][1], es[i][2]), es, i + 1)

(***************************************************************************)
(* Type descriptors.  A struct descriptor lists its fields in declaration  *)
(* order with the serde attributes written on them in the source; scalar   *)
(* descriptors carry the sample values inputs are drawn from.              *)
(***************************************************************************)
StringT(S) == [k |-> "String", strs |-> S]
CowT(S) == [k |-> "Cow", strs |-> S]
UsizeT(S) == [k |-> "usize", nums |-> S]
I32T(S) == [k |-> "i32", nums |-> S]
BoolT == [k |-> "bool"]
OptionT(T) == [k |-> "Option", of |-> T]
VecT(T) == [k |-> "Vec", of |-> T]

\* A field without attributes.
Field(name, T) ==
    [name |-> name, ty |-> T, rename |-> "", flatten |-> FALSE,
     default |-> "none", as |-> "same"]
\* #[serde(rename = "...")]
Renamed(f, key) == [f EXCEPT !.rename = key]
\* #[serde(flatten)]
Flattened(f) == [f EXCEPT !.flatten = TRUE]
\* #[serde(default)] and #[serde(default = "path")]
Defaulted(f) == [f EXCEPT !.default = "Default"]
DefaultedBy(f, fn) == [f EXCEPT !.default = fn]
\* #[serde_as(as = "Option<OneOrMany<_>>")]
AsOptionOneOrMany(f) == [f EXCEPT !.as = "Option<OneOrMany>"]

\* renameAll: #[serde(rename_all = ...)]; skipNone: #[skip_serializing_none];
\* dom: the values drawn as inputs ({}: every value of the fields' types).
Struct(name, renameAll, skipNone, fields) ==
    [k |-> "struct", name |-> name, renameAll |-> renameAll,
     skipNone |-> skipNone, fields |-> fields, dom |-> {}]
Sampled(T, S) == [T EXCEPT !.dom = S]

\* serde's camelCase renaming of the field names the source uses.
CamelCase(name) ==
    CASE name = "content_type" -> "contentType"
      [] name = "content_coding" -> "contentCoding"
      [] name = "additional_response" -> "additionalResponse"
      [] OTHER -> name

WireKey(T, f) ==
    IF f.rename # "" THEN f.rename
    ELSE IF T.renameAll = "camelCase" THEN CamelCase(f.name)
    ELSE f.name

(***************************************************************************)
(* src/hlist.rs                                                            *)
(***************************************************************************)
Nil == [k |-> "Nil"]
NilV == [unit |-> "Nil"]

Cons_TailNotFlattened(H, T) ==
    Struct("Cons", "none", FALSE,
           <<Flattened(Field("head", H)), Field("tail", T)>>)

Cons_HeadNotFlattened(H, T) ==
    Struct("Cons", "none", FALSE,
           <<Field("head", H), Flattened(Field("tail", T))>>)

Cons(H, T) ==
    Struct("Cons", "none", FALSE,
           <<Flattened(Field("head", H)), Flattened(Field("tail", T))>>)

ConsV(h, t) == [head |-> h, tail |-> t]

new_head(head) == ConsV(head, NilV)

add_Swapped(self, value) == ConsV(self, value)

add(self, value) == ConsV(value, self)

split_head(self) == <<self.head, self.tail>>

\* The structs of hlist.rs's tests.
TestB == Struct("B", "none", FALSE, <<Field("foo", UsizeT({42, 7}))>>)
TestC == Struct("C", "none", FALSE, <<Field("bar", StringT({"42"}))>>)
TestA(X) ==
    Struct("A", "none", FALSE,
           <<Field("a", I32T({42})), Flattened(Field("b", X))>>)

(***************************************************************************)
(* src/protocol/http.rs: the HTTP vocabulary.                              *)
(***************************************************************************)
MethodVariants == {"Get", "Put", "Post", "Delete", "Patch"}
Method(S) == [k |-> "Method", variants |-> S]
\* #[serde(rename_all = "SCREAMING_SNAKE_CASE")]
ScreamingSnakeCase(variant) ==
    CASE variant = "Get" -> "GET"
      [] variant = "Put" -> "PUT"
      [] variant = "Post" -> "POST"
      [] variant = "Delete" -> "DELETE"
      [] variant = "Patch" -> "PATCH"

MessageHeader ==
    Struct("MessageHeader", "none", FALSE,
           <<Renamed(Field("field_name", OptionT(StringT({"Link"}))), "htv:fieldName"),
             Renamed(Field("field_value", OptionT(StringT({"x"}))), "htv:fieldValue")>>)

Response ==
    Struct("Response", "none", FALSE,
           <<Renamed(Field("headers", VecT(MessageHeader)), "htv:headers"),
             Renamed(Field("status_code_value", OptionT(UsizeT({200}))), "htv:statusCodeValue")>>)

HttpForm ==
    Struct("Form", "none", FALSE,
           <<Renamed(Field("method_name", OptionT(Method({"Get", "Patch"}))), "htv:methodName")>>)

(***************************************************************************)
(* Values.  Option<T> is <<>> (None) or <<x>> (Some(x)); Vec<T> is a       *)
(* sequence; a struct is a record over its Rust field names.               *)
(***************************************************************************)
None == <<>>
Some(x) == <<x>>

\* crate::thing::DefaultedFormOperations, declared outside the source at
\* hand and modelled from the specification: the allowed operations of a
\* form, a list of names out of an allowed set.  The default set is named
\* by the environment; the specification only requires that one exists.
OpsT == [k |-> "DefaultedFormOperations"]

FormOperations == {"readproperty", "writeproperty"}

OpsDefault == <<"readproperty", "writeproperty">>

RECURSIVE ValuesOf(_)
RECURSIVE RecordsOf(_, _)
RecordsOf(fields, i) ==
    IF i > Len(fields) THEN {EmptyMap}
    ELSE {Put(r, fields[i].name, x) :
             x \in ValuesOf(fields[i].ty), r \in RecordsOf(fields, i + 1)}

ValuesOf(T) ==
    CASE T.k \in {"String", "Cow"} -> T.strs
      [] T.k \in {"usize", "i32"} -> T.nums
      [] T.k = "Method" -> T.variants
      [] T.k = "bool" -> BOOLEAN
      [] T.k = "Option" -> {None} \cup {Some(x) : x \in ValuesOf(T.of)}
      [] T.k = "Vec" -> SeqsUpTo(ValuesOf(T.of), MaxLen)
      [] T.k = "DefaultedFormOperations" -> {OpsDefault, <<"readproperty">>}
      [] T.k = "Nil" -> {NilV}
      [] T.k = "struct" -> IF T.dom # {} THEN T.dom ELSE RecordsOf(T.fields, 1)

(***************************************************************************)
(* Serialization.  A struct is serialized as the sequence of               *)
(* serialize_entry calls its derived impl makes; a flattened field         *)
(* forwards its own entries into the enclosing map (serde's                *)
(* FlatMapSerializer).                                                     *)
(***************************************************************************)
\* impl Serialize for Nil: serialize_struct("Nil", 0)?.end()
SerializeNil_EmitsKey == <<<<"Nil", JNull>>>>

SerializeNil == <<>>

\* The wire form of op, from the specification: one string or an array of
\* strings on input, each out of the allowed set; an array on output.
SerOps(v) == JArr([i \in 1..Len(v) |-> JStr(v[i])])

DeOps(j) ==
    CASE j.t = "str" ->
            IF j.s \in FormOperations THEN [ok |-> TRUE, v |-> <<j.s>>]
            ELSE [ok |-> FALSE, err |-> "unknown variant"]
      [] j.t = "arr" ->
            IF \E i \in 1..Len(j.a) : j.a[i].t # "str"
            THEN [ok |-> FALSE, err |-> "one or many: invalid element"]
            ELSE IF \E i \in 1..Len(j.a) : j.a[i].s \notin FormOperations
            THEN [ok |-> FALSE, err |-> "unknown variant"]
            ELSE [ok |-> TRUE, v |-> [i \in 1..Len(j.a) |-> j.a[i].s]]
      [] OTHER -> [ok |-> FALSE, err |-> "one or many: neither one nor many"]

\* serde_with::OneOrMany<_> (format PreferOne) under Option: a list of
\* exactly one element is written as that element, any other as an array.
SerOptionOneOrMany(v) ==
    IF v = None THEN JNull
    ELSE IF Len(v[1]) = 1 THEN JStr(v[1][1])
    ELSE JArr([i \in 1..Len(v[1]) |-> JStr(v[1][i])])

\* #[skip_serializing_none]: skip_serializing_if = "Option::is_none" on
\* every Option field of the struct.
SkipField(T, f, x) == T.skipNone /\ f.ty.k = "Option" /\ x = None

RECURSIVE SerVal(_, _)
RECURSIVE SerEntries(_, _, _)

\* What a flattened field of type T and value x adds to the enclosing map.
SerFlat(T, x) ==
    IF T.k = "Nil" THEN SerializeNil ELSE SerEntries(T, x, 1)

SerEntries(T, x, i) ==
    IF i > Len(T.fields) THEN <<>>
    ELSE LET f == T.fields[i]
             here == IF f.flatten THEN SerFlat(f.ty, x[f.name])
                     ELSE IF SkipField(T, f, x[f.name]) THEN <<>>
                     ELSE IF f.as = "Option<OneOrMany>"
                          THEN <<<<WireKey(T, f), SerOptionOneOrMany(x[f.name])>>>>
                     ELSE <<<<WireKey(T, f), SerVal(f.ty, x[f.name])>>>>
         IN here \o SerEntries(T, x, i + 1)

SerVal(T, x) ==
    CASE T.k \in {"String", "Cow"} -> JStr(x)
      [] T.k \in {"usize", "i32"} -> JNum(x)
      [] T.k = "bool" -> JBool(x)
      [] T.k = "Method" -> JStr(ScreamingSnakeCase(x))
      [] T.k = "Option" -> IF x = None THEN JNull ELSE SerVal(T.of, x[1])
      [] T.k = "Vec" -> JArr([i \in 1..Len(x) |-> SerVal(T.of, x[i])])
      [] T.k = "DefaultedFormOperations" -> SerOps(x)
      [] T.k = "Nil" -> JObj(InsertAll(EmptyMap, SerializeNil, 1))
      [] T.k = "struct" -> JObj(InsertAll(EmptyMap, SerEntries(T, x, 1), 1))

\* serde_json::to_value
to_value(T, x) == SerVal(T, x)

(***************************************************************************)
(* Deserialization.  A result is [ok, v]; the flattened form adds rest,    *)
(* the entries left for the fields that follow.                            *)
(***************************************************************************)
Ok(v) == [ok |-> TRUE, v |-> v]
Err(msg) == [ok |-> FALSE, err |-> msg]

\* Form::default_content_type
default_content_type_Empty == ""

default_content_type == "application/json"

\* Default::default() of the field types the source marks #[serde(default)].
DefaultOf(T) ==
    CASE T.k = "bool" -> FALSE
      [] T.k = "Option" -> None
      [] T.k = "DefaultedFormOperations" -> OpsDefault
      [] T.k \in {"String", "Cow"} -> ""

\* The keys a struct matches itself: serde's FIELDS of the derived impl.
FieldKeys(T) ==
    {WireKey(T, T.fields[i]) : i \in {n \in 1..Len(T.fields) : ~T.fields[n].flatten}}

\* The range of an i32.  A usize is bounded below by 0 and above by
\* 2^64 - 1 (2^32 - 1 on a 32-bit target); every integer the model can write
\* (at most 2^31 - 1) is under that upper bound, so DeVal states the
\* lower bound only.
I32Max == 2147483647

I32Min == -I32Max - 1

HasFlatten(T) == \E i \in 1..Len(T.fields) : T.fields[i].flatten

\* impl Deserialize for Nil: NilStruct {} takes no entry and ignores all.
DeserializeNil_DenyUnknown(collect) ==
    IF DOMAIN collect = {} THEN [ok |-> TRUE, v |-> NilV, rest |-> collect]
    ELSE [ok |-> FALSE, err |-> "unknown field", rest |-> collect]

DeserializeNil(collect) == [ok |-> TRUE, v |-> NilV, rest |-> collect]

\* serde_with::OneOrMany<_> under Option: one element or an array of them.
DeOptionOneOrMany(j) ==
    CASE j.t = "null" -> Ok(None)
      [] j.t = "str" -> Ok(Some(<<j.s>>))
      [] j.t = "arr" ->
            IF \A i \in 1..Len(j.a) : j.a[i].t = "str"
            THEN Ok(Some([i \in 1..Len(j.a) |-> j.a[i].s]))
            ELSE Err("OneOrMany: invalid element")
      [] OTHER -> Err("OneOrMany: neither one nor many")

\* The derived variant identifier of Method: the name of a variant under
\* rename_all = "SCREAMING_SNAKE_CASE".
MethodFromName(s) ==
    IF \E m \in MethodVariants : ScreamingSnakeCase(m) = s
    THEN Ok(CHOOSE m \in MethodVariants : ScreamingSnakeCase(m) = s)
    ELSE Err("unknown variant")

\* The deserializer a value is read with: serde_json's own ("Value"), or
\* serde's Content ("Content"), the buffer a struct with flattened fields
\* collects entries in and hands to those fields (FlatMapDeserializer).
\* The two differ in reading a unit: serde_json takes null only, Content
\* takes null or an empty map.
IsUnit(de, j) ==
    \/ j.t = "null"
    \/ de = "Content" /\ j.t = "obj" /\ DOMAIN j.o = {}

RECURSIVE DeWith(_, _, _)
RECURSIVE DeStruct(_, _, _)
RECURSIVE DeFields(_, _, _, _, _, _)
RECURSIVE DeFlat(_, _)
RECURSIVE DeSeqFields(_, _, _, _, _)

\* The value of one field, through serde_as when the field has it.
DeField(de, f, j) ==
    IF f.as = "Option<OneOrMany>" THEN DeOptionOneOrMany(j)
    ELSE DeWith(de, f.ty, j)

\* A field the struct matches by its own key.
DeOwn(de, T, f, m) ==
    LET key == WireKey(T, f)
    IN IF key \in DOMAIN m
       THEN DeField(de, f, m[key])
       ELSE IF f.default = "Default" THEN Ok(DefaultOf(f.ty))
       ELSE IF f.default = "default_content_type" THEN Ok(default_content_type)
       ELSE IF f.ty.k = "Option" THEN Ok(None)
       ELSE Err("missing field")

\* A flattened field reads from the entries collected by the enclosing
\* struct (serde's FlatMapDeserializer), which are Content.  A struct
\* without flattened fields takes the entries whose keys it knows
\* (deserialize_struct); one with flattened fields reads every entry and
\* takes none away (deserialize_map).
DeFlat(T, collect) ==
    IF T.k = "Nil" THEN DeserializeNil(collect)
    ELSE IF HasFlatten(T)
         THEN LET r == DeStruct("Content", T, collect)
              IN IF r.ok THEN [ok |-> TRUE, v |-> r.v, rest |-> collect]
                 ELSE [ok |-> FALSE, err |-> r.err, rest |-> collect]
         ELSE LET r == DeStruct("Content", T, Restrict(collect, FieldKeys(T)))
                  rest == Restrict(collect, DOMAIN collect \ FieldKeys(T))
              IN IF r.ok THEN [ok |-> TRUE, v |-> r.v, rest |-> rest]
                 ELSE [ok |-> FALSE, err |-> r.err, rest |-> rest]

DeFields(de, T, m, i, collect, acc) ==
    IF i > Len(T.fields) THEN Ok(acc)
    ELSE LET f == T.fields[i]
         IN IF f.flatten
            THEN LET r == DeFlat(f.ty, collect)
                 IN IF r.ok THEN DeFields(de, T, m, i + 1, r.rest, Put(acc, f.name, r.v))
                    ELSE Err(r.err)
            ELSE LET r == DeOwn(de, T, f, m)
                 IN IF r.ok THEN DeFields(de, T, m, i + 1, collect, Put(acc, f.name, r.v))
                    ELSE Err(r.err)

\* The derived visit_map: own keys are matched, every other entry is
\* collected for the flattened fields (and ignored when there are none).
DeStruct(de, T, m) ==
    DeFields(de, T, m, 1, Restrict(m, DOMAIN m \ FieldKeys(T)), EmptyMap)

\* The derived visit_seq of a struct without flattened fields: the fields
\* are read by position, in declaration order.  A missing element is an
\* error unless the field has a default (an Option field included: only
\* visit_map fills it with None); the elements left over once every field
\* is read are an error.
DeSeqFields(de, T, a, i, acc) ==
    IF i > Len(T.fields)
    THEN IF Len(a) > Len(T.fields) THEN Err("invalid length") ELSE Ok(acc)
    ELSE LET f == T.fields[i]
             r == IF i <= Len(a) THEN DeField(de, f, a[i])
                  ELSE IF f.default = "Default" THEN Ok(DefaultOf(f.ty))
                  ELSE IF f.default = "default_content_type"
                       THEN Ok(default_content_type)
                  ELSE Err("invalid length")
         IN IF r.ok THEN DeSeqFields(de, T, a, i + 1, Put(acc, f.name, r.v))
            ELSE Err(r.err)

DeSeq(de, T, a) == DeSeqFields(de, T, a, 1, EmptyMap)

\* NilStruct {} read from an array: no field takes an element, so only
\* the empty array is accepted.
DeserializeNilSeq(a) ==
    IF Len(a) = 0 THEN Ok(NilV) ELSE Err("invalid length")

DeWith(de, T, j) ==
    CASE T.k \in {"String", "Cow"} ->
            IF j.t = "str" THEN Ok(j.s) ELSE Err("expected a string")
      [] T.k = "usize" ->
            IF j.t = "num" /\ j.n >= 0 THEN Ok(j.n) ELSE Err("expected usize")
      [] T.k = "i32" ->
            IF j.t = "num" /\ j.n >= I32Min /\ j.n <= I32Max
            THEN Ok(j.n) ELSE Err("expected i32")
      [] T.k = "bool" ->
            IF j.t = "bool" THEN Ok(j.b) ELSE Err("expected a boolean")
      [] T.k = "Method" ->
            CASE j.t = "str" -> MethodFromName(j.s)
              [] j.t = "obj" ->
                    IF Cardinality(DOMAIN j.o) # 1
                    THEN Err("expected map with a single key")
                    ELSE LET name == CHOOSE key \in DOMAIN j.o : TRUE
                             r == MethodFromName(name)
                         IN IF ~r.ok THEN r
                            ELSE IF IsUnit(de, j.o[name]) THEN r
                            ELSE Err("expected unit")
              [] OTHER -> Err("expected string or map")
      [] T.k = "Option" ->
            IF j.t = "null" THEN Ok(None)
            ELSE LET r == DeWith(de, T.of, j) IN IF r.ok THEN Ok(Some(r.v)) ELSE r
      [] T.k = "Vec" ->
            IF j.t # "arr" THEN Err("expected a sequence")
            ELSE LET rs == [i \in 1..Len(j.a) |-> DeWith(de, T.of, j.a[i])]
                 IN IF \A i \in 1..Len(j.a) : rs[i].ok
                    THEN Ok([i \in 1..Len(j.a) |-> rs[i].v])
                    ELSE Err("invalid element")
      [] T.k = "DefaultedFormOperations" -> DeOps(j)
      [] T.k = "Nil" ->
            CASE j.t = "obj" -> LET r == DeserializeNil(j.o)
                                IN IF r.ok THEN Ok(r.v) ELSE Err(r.err)
              [] j.t = "arr" -> DeserializeNilSeq(j.a)
              [] OTHER -> Err("expected struct NilStruct")
      [] T.k = "struct" ->
            CASE j.t = "obj" -> DeStruct(de, T, j.o)
              [] j.t = "arr" /\ ~HasFlatten(T) -> DeSeq(de, T, j.a)
              [] OTHER -> Err("expected a map")

\* A value read with serde_json's deserializer.
DeVal(T, j) == DeWith("Value", T, j)

\* serde_json::from_value
from_value(T, j) == DeVal(T, j)

(***************************************************************************)
(* src/protocol/http.rs, mod mini: the hypermedia records.                 *)
(***************************************************************************)
\* The extension values nested records are drawn with.
Samples(T) ==
    IF T.k = "Nil" THEN {NilV}
    ELSE IF T.name = "Response"
         THEN {[headers |-> <<>>, status_code_value |-> None],
               [headers |-> <<[field_name |-> Some("Link"), field_value |-> None]>>,
                status_code_value |-> Some(200)]}
         ELSE ValuesOf(T)

AdditionalExpectedResponse(T) ==
    Struct("mini::AdditionalExpectedResponse", "camelCase", FALSE,
           <<Defaulted(Field("success", BoolT)),
             Field("content_type", StringT({"application/problem+json"})),
             Flattened(Field("other", T))>>)

ExpectedResponse(T) ==
    Struct("mini::ExpectedResponse", "camelCase", FALSE,
           <<Field("content_type", StringT({"application/ld+json"})),
             Flattened(Field("other", T))>>)

Form(T, E) ==
    Struct("mini::Form", "camelCase", TRUE,
           <<Defaulted(Field("op", OpsT)),
             Field("href", StringT({"/things"})),
             DefaultedBy(Field("content_type", CowT({"application/json", "text/foo"})),
                         "default_content_type"),
             Field("content_coding", OptionT(StringT({"gzip"}))),
             Field("subprotocol", OptionT(StringT({"sse"}))),
             AsOptionOneOrMany(Defaulted(Field("security", OptionT(VecT(StringT({"basic"})))))),
             AsOptionOneOrMany(Defaulted(Field("scopes", OptionT(VecT(StringT({"limited"})))))),
             Field("response",
                   OptionT(Sampled(ExpectedResponse(E),
                                   {[content_type |-> "application/ld+json", other |-> o] :
                                       o \in Samples(E)}))),
             Field("additional_response",
                   OptionT(Sampled(AdditionalExpectedResponse(E),
                                   {[success |-> FALSE,
                                     content_type |-> "application/problem+json",
                                     other |-> o] : o \in Samples(E)}))),
             Flattened(Field("other", T))>>)

InteractionAffordance(T, F, R) ==
    Struct("mini::InteractionAffordance", "camelCase", TRUE,
           <<AsOptionOneOrMany(Defaulted(Renamed(
                 Field("attype", OptionT(VecT(StringT({"Thing"})))), "@type"))),
             Field("title", OptionT(StringT({"t"}))),
             Field("description", OptionT(StringT({"d"}))),
             Field("forms",
                   VecT(Sampled(Form(F, R),
                                {f \in ValuesOf(Form(F, R)) :
                                    /\ f.op = OpsDefault
                                    /\ f.content_coding = None
                                    /\ f.subprotocol = None
                                    /\ f.scopes = None
                                    /\ f.security \in {None, Some(<<"basic">>)}
                                    /\ f.response = None
                                    /\ f.additional_response = None
                                    /\ f.content_type = "application/json"
                                    /\ f.other \in Samples(F)}))),
             Flattened(Field("other", T))>>)

(***************************************************************************)
(* Key sets.                                                               *)
(***************************************************************************)
\* Every key a type matches when it is flattened into an object.
RECURSIVE KeysOf(_)
KeysOf(T) ==
    IF T.k # "struct" THEN {}
    ELSE UNION {IF T.fields[i].flatten THEN KeysOf(T.fields[i].ty)
                ELSE {WireKey(T, T.fields[i])} : i \in 1..Len(T.fields)}

\* The key set of field i of T, as it appears in T's object.
PartKeys(T, i) ==
    IF T.fields[i].flatten THEN KeysOf(T.fields[i].ty) ELSE {WireKey(T, T.fields[i])}

\* The struct types nested in T through Option and Vec.
RECURSIVE Inner(_)
Inner(T) == IF T.k \in {"Option", "Vec"} THEN Inner(T.of) ELSE T

\* No two parts of any object of T bind the same key.
RECURSIVE Disjoint(_)
Disjoint(T) ==
    IF T.k # "struct" THEN TRUE
    ELSE /\ \A i, j \in 1..Len(T.fields) : i # j => PartKeys(T, i) \cap PartKeys(T, j) = {}
         /\ \A i \in 1..Len(T.fields) : Disjoint(Inner(T.fields[i].ty))

\* The keys bound by two parts of T's own object.
SharedKeys(T) ==
    IF T.k # "struct" THEN {}
    ELSE UNION {PartKeys(T, p[1]) \cap PartKeys(T, p[2]) :
                  p \in {q \in (1..Len(T.fields)) \X (1..Len(T.fields)) : q[1] # q[2]}}

\* The keys of T's own one-or-many fields.
OneOrManyKeys(T) ==
    IF T.k # "struct" THEN {}
    ELSE {WireKey(T, T.fields[i]) :
            i \in {n \in 1..Len(T.fields) : T.fields[n].as = "Option<OneOrMany>"}}

(***************************************************************************)
(* SpecSerde: a typed value is serialized (serde_json::to_value); the      *)
(* object is read back as it is, or after one edit that turns it into a    *)
(* document a peer could have written; the value read is serialized again. *)
(***************************************************************************)
\* The H-list types of at most n Cons cells over Nil and the test structs.
RECURSIVE HLists(_)
HLists(n) ==
    IF n = 0 THEN {Nil, TestB, TestC}
    ELSE HLists(n - 1) \cup
         UNION {{Cons(H, T) : H \in HLists(i), T \in HLists(n - 1 - i)} : i \in 0..(n - 1)}

HypermediaTypes ==
    {ExpectedResponse(Nil), ExpectedResponse(Response),
     AdditionalExpectedResponse(Nil), AdditionalExpectedResponse(Response),
     Form(Nil, Nil), Form(HttpForm, Response),
     InteractionAffordance(Nil, Nil, Nil),
     InteractionAffordance(Nil, HttpForm, Response)}

VocabularyTypes == {MessageHeader, Response, HttpForm}

SerdeTypes ==
    HLists(MaxCells)
    \cup {TestA(X) : X \in HLists(MaxCells)}
    \cup {Cons(HttpForm, Cons(Response, Nil)), Cons(Cons(HttpForm, Response), Nil)}
    \cup VocabularyTypes
    \cup HypermediaTypes

\* Keys no type of the model matches at the place they are added.
UnknownKeys == {"description", "additionalResponses"}

NoDoc == [t |-> "none"]
NoOut == Err("nothing read")
NoPert == [kind |-> "none", key |-> ""]

ListIdle == list = NilV /\ hist = <<>> /\ split = <<>>
BuilderIdle == bT = "Nil" /\ bld = NilV /\ calls = <<>> /\ built = NilV

InitSerde ==
    /\ ty \in SerdeTypes
    /\ val \in ValuesOf(ty)
    /\ doc = NoDoc
    /\ pert = NoPert
    /\ out = NoOut
    /\ doc2 = NoDoc
    /\ phase = "value"
    /\ ListIdle
    /\ BuilderIdle

Serialize ==
    /\ phase = "value"
    /\ doc' = to_value(ty, val)
    /\ phase' = "serialized"
    /\ UNCHANGED <<ty, val, pert, out, doc2, listVars, bldVars>>

\* A peer adds a key the type does not know.
AddUnknownKey ==
    /\ phase = "serialized"
    /\ \E key \in UnknownKeys \ KeysOf(ty) :
          /\ doc' = JObj(Put(doc.o, key, JStr("ignored")))
          /\ pert' = [kind |-> "unknown", key |-> key]
    /\ phase' = "input"
    /\ UNCHANGED <<ty, val, out, doc2, listVars, bldVars>>

\* A peer adds an unknown key inside a nested object.
AddUnknownNested ==
    /\ phase = "serialized"
    /\ \E at \in {k \in DOMAIN doc.o : doc.o[k].t = "obj"} :
          /\ doc' = JObj(Put(doc.o, at, JObj(Put(doc.o[at].o, "description", JStr("ignored")))))
          /\ pert' = [kind |-> "nested", key |-> at]
    /\ phase' = "input"
    /\ UNCHANGED <<ty, val, out, doc2, listVars, bldVars>>

\* A peer leaves a key out.
RemoveKey ==
    /\ phase = "serialized"
    /\ \E key \in DOMAIN doc.o :
          /\ doc' = JObj(Restrict(doc.o, DOMAIN doc.o \ {key}))
          /\ pert' = [kind |-> "removed", key |-> key]
    /\ phase' = "input"
    /\ UNCHANGED <<ty, val, out, doc2, listVars, bldVars>>

\* A peer writes a one-or-many field holding one string as an array of it.
WrapInArray ==
    /\ phase = "serialized"
    /\ \E key \in OneOrManyKeys(ty) \cap DOMAIN doc.o :
          /\ doc.o[key].t = "str"
          /\ doc' = JObj(Put(doc.o, key, JArr(<<doc.o[key]>>)))
          /\ pert' = [kind |-> "array", key |-> key]
    /\ phase' = "input"
    /\ UNCHANGED <<ty, val, out, doc2, listVars, bldVars>>

\* A peer writes a struct without flattened fields as the array of its
\* field values, in declaration order.
WriteAsSequence ==
    /\ phase = "serialized"
    /\ ty.k = "Nil" \/ (ty.k = "struct" /\ ~HasFlatten(ty))
    /\ doc' = JArr(IF ty.k = "Nil" THEN <<>>
                   ELSE [i \in 1..Len(ty.fields) |-> doc.o[WireKey(ty, ty.fields[i])]])
    /\ pert' = [kind |-> "sequence", key |-> ""]
    /\ phase' = "input"
    /\ UNCHANGED <<ty, val, out, doc2, listVars, bldVars>>

\* A peer writes a method as the one-key object of its variant name, the
\* externally tagged form of a unit variant, with null or with an empty
\* object for the unit.
WriteMethodTagged ==
    /\ phase = "serialized"
    /\ "htv:methodName" \in DOMAIN doc.o
    /\ doc.o["htv:methodName"].t = "str"
    /\ \E unit \in {JNull, JObj(EmptyMap)} :
          /\ doc' = JObj(Put(doc.o, "htv:methodName",
                             JObj(Put(EmptyMap, doc.o["htv:methodName"].s, unit))))
          /\ pert' = [kind |-> IF unit = JNull THEN "tagged" ELSE "taggedEmpty",
                      key |-> "htv:methodName"]
    /\ phase' = "input"
    /\ UNCHANGED <<ty, val, out, doc2, listVars, bldVars>>

\* A peer writes an op of one operation as the bare string.
WriteOpScalar ==
    /\ phase = "serialized"
    /\ "op" \in DOMAIN doc.o
    /\ doc.o["op"].t = "arr"
    /\ Len(doc.o["op"].a) = 1
    /\ doc' = JObj(Put(doc.o, "op", doc.o["op"].a[1]))
    /\ pert' = [kind |-> "scalar", key |-> "op"]
    /\ phase' = "input"
    /\ UNCHANGED <<ty, val, out, doc2, listVars, bldVars>>

Deserialize ==
    /\ phase \in {"serialized", "input"}
    /\ out' = from_value(ty, doc)
    /\ phase' = IF phase = "serialized" THEN "deserialized" ELSE "parsed"
    /\ UNCHANGED <<ty, val, doc, pert, doc2, listVars, bldVars>>

Reserialize ==
    /\ phase \in {"deserialized", "parsed"}
    /\ out.ok
    /\ doc2' = to_value(ty, out.v)
    /\ phase' = "reserialized"
    /\ UNCHANGED <<ty, val, doc, pert, out, listVars, bldVars>>

NextSerde ==
    \/ Serialize
    \/ AddUnknownKey
    \/ AddUnknownNested
    \/ RemoveKey
    \/ WrapInArray
    \/ WriteAsSequence
    \/ WriteMethodTagged
    \/ WriteOpScalar
    \/ Deserialize
    \/ Reserialize

SpecSerde == InitSerde /\ [][NextSerde]_vars

(***************************************************************************)
(* SpecList: an H-list is started with new_head and grown with add;        *)
(* split_head takes it apart again.  hist records the elements in the      *)
(* order they were put in, split the last (head, tail) pair returned.      *)
(***************************************************************************)
Elems == ValuesOf(TestB) \cup ValuesOf(TestC)

SerdeIdle ==
    /\ ty = Nil /\ val = NilV /\ doc = NoDoc /\ pert = NoPert
    /\ out = NoOut /\ doc2 = NoDoc /\ phase = "idle"

\* The elements of an H-list, head first.
RECURSIVE ToSeq(_)
ToSeq(l) == IF l = NilV THEN <<>> ELSE <<l.head>> \o ToSeq(l.tail)

InitList ==
    /\ \E h \in Elems : list = new_head(h) /\ hist = <<h>>
    /\ split = <<>>
    /\ BuilderIdle
    /\ SerdeIdle

Add ==
    /\ list # NilV
    /\ Len(hist) < MaxElems
    /\ \E value \in Elems :
          /\ list' = add(list, value)
          /\ hist' = Append(hist, value)
    /\ split' = <<>>
    /\ UNCHANGED <<bldVars, serdeVars>>

\* split_head consumes the list; the model goes on with the tail.
SplitHead ==
    /\ list # NilV
    /\ split' = split_head(list)
    /\ list' = split'[2]
    /\ hist' = SubSeq(hist, 1, Len(hist) - 1)
    /\ UNCHANGED <<bldVars, serdeVars>>

NextList == Add \/ SplitHead

SpecList == InitList /\ [][NextList]_vars

(***************************************************************************)
(* SpecBuilder: ExpectedResponse::<T>::builder(), a chain of               *)
(* .content_type(s) and .other(f) calls, then .build().                    *)
(***************************************************************************)
\* #[derive(Default)] struct ResponseBuilder
ResponseBuilder_default == [headers |-> <<>>, status_code_value |-> None]
ResponseBuilder_headers(self, header) == [self EXCEPT !.headers = Append(@, header)]
ResponseBuilder_status_code_value(self, value) ==
    [self EXCEPT !.status_code_value = Some(value)]
ResponseBuilder_build(self) ==
    [headers |-> self.headers, status_code_value |-> self.status_code_value]
Response_builder == ResponseBuilder_default

\* #[derive(Default)] struct FormBuilder
FormBuilder_default == [method_name |-> None]
FormBuilder_method(self, method_name) == [self EXCEPT !.method_name = Some(method_name)]
FormBuilder_build(self) == [method_name |-> self.method_name]
Form_builder == FormBuilder_default

\* impl Builder for Nil, impl Buildable for Nil
Nil_build(self) == NilV
Nil_builder == NilV

\* Dispatch on the extension type T of ExpectedResponse<T>.
BuilderOf(T) ==
    CASE T = "Nil" -> Nil_builder
      [] T = "Response" -> Response_builder
      [] T = "Form" -> Form_builder

DefaultBuilderOf(T) ==
    CASE T = "Nil" -> NilV
      [] T = "Response" -> ResponseBuilder_default
      [] T = "Form" -> FormBuilder_default

BuildOf(T, b) ==
    CASE T = "Nil" -> Nil_build(b)
      [] T = "Response" -> ResponseBuilder_build(b)
      [] T = "Form" -> FormBuilder_build(b)

\* The fn(T) -> T arguments of .other: closures calling one inner setter,
\* or none.
Transformers(T) ==
    CASE T = "Nil" -> {[f |-> "id"]}
      [] T = "Response" ->
            {[f |-> "id"],
             [f |-> "status_code_value", n |-> 201],
             [f |-> "status_code_value", n |-> 404],
             [f |-> "headers", h |-> [field_name |-> Some("Link"), field_value |-> None]]}
      [] T = "Form" ->
            {[f |-> "id"], [f |-> "method", m |-> "Get"], [f |-> "method", m |-> "Post"]}

Apply(f, b) ==
    CASE f.f = "id" -> b
      [] f.f = "status_code_value" -> ResponseBuilder_status_code_value(b, f.n)
      [] f.f = "headers" -> ResponseBuilder_headers(b, f.h)
      [] f.f = "method" -> FormBuilder_method(b, f.m)

\* #[derive(Default)] struct ExpectedResponseBuilder<T>
ExpectedResponseBuilder_default(T) == [content_type |-> "", other |-> DefaultBuilderOf(T)]

ExpectedResponse_builder(T) == ExpectedResponseBuilder_default(T)

ExpectedResponseBuilder_content_type(self, s) == [self EXCEPT !.content_type = s]

ExpectedResponseBuilder_other_DropsContentType(T, self, f) ==
    [content_type |-> "", other |-> Apply(f, self.other)]

ExpectedResponseBuilder_other(T, self, f) ==
    [content_type |-> self.content_type, other |-> Apply(f, self.other)]

ExpectedResponseBuilder_build(T, self) ==
    [content_type |-> self.content_type, other |-> BuildOf(T, self.other)]

ExtensionTypes == {"Nil", "Response", "Form"}
ContentTypes == {"text/foo", "text/bar"}

InitBuilder ==
    /\ bT \in ExtensionTypes
    /\ bld = ExpectedResponse_builder(bT)
    /\ calls = <<>>
    /\ built = NilV
    /\ ListIdle
    /\ SerdeIdle

CallContentType ==
    /\ built = NilV
    /\ Len(calls) < MaxCalls
    /\ \E s \in ContentTypes :
          /\ bld' = ExpectedResponseBuilder_content_type(bld, s)
          /\ calls' = Append(calls, [c |-> "content_type", s |-> s])
    /\ UNCHANGED <<bT, built, listVars, serdeVars>>

CallOther ==
    /\ built = NilV
    /\ Len(calls) < MaxCalls
    /\ \E f \in Transformers(bT) :
          /\ bld' = ExpectedResponseBuilder_other(bT, bld, f)
          /\ calls' = Append(calls, [c |-> "other", f |-> f])
    /\ UNCHANGED <<bT, built, listVars, serdeVars>>

CallBuild ==
    /\ built = NilV
    /\ built' = ExpectedResponseBuilder_build(bT, bld)
    /\ UNCHANGED <<bT, bld, calls, listVars, serdeVars>>

NextBuilder == CallContentType \/ CallOther \/ CallBuild

SpecBuilder == InitBuilder /\ [][NextBuilder]_vars

(***************************************************************************)
(* Properties of SpecList and SpecBuilder.                                 *)
(***************************************************************************)
\* C8: starting from new_head(h), after any sequence of add calls the list
\* holds the elements in reverse insertion order (the last one added is the
\* head, the first sits directly above Nil), and split_head(add(l, v)) is
\* exactly (v, l); the tail split_head returns is the list that was grown.
C8_ReverseInsertionOrder ==
    /\ list # NilV =>
          \A v \in Elems : split_head(add(list, v)) = <<v, list>>
    /\ ToSeq(list) = Reverse(hist)
    /\ split # <<>> => split[2] = list

\* Three elements were put in and the last one was split off again.
C8_Witness ==
    /\ Len(hist) = 2
    /\ split # <<>>
    /\ split[2] = list
    /\ list = add(new_head(hist[1]), hist[2])
    /\ split[1] # hist[2] /\ hist[1] # hist[2]

\* The content type the chain set last ("" when it set none).
RECURSIVE LastContentType(_)
LastContentType(cs) ==
    IF cs = <<>> THEN ""
    ELSE IF cs[Len(cs)].c = "content_type" THEN cs[Len(cs)].s
    ELSE LastContentType(SubSeq(cs, 1, Len(cs) - 1))

\* Every transformer of the chain applied in call order to b.
RECURSIVE Composed(_, _)
Composed(cs, b) ==
    IF cs = <<>> THEN b
    ELSE LET rest == Composed(SubSeq(cs, 1, Len(cs) - 1), b)
         IN IF cs[Len(cs)].c = "other" THEN Apply(cs[Len(cs)].f, rest) ELSE rest

\* C7: ExpectedResponse::<T>::builder().other(f).build() is the record
\* whose extension is f(T::builder()).build(); .other leaves content_type
\* unchanged and .content_type leaves the inner builder unchanged; whatever
\* the order of the calls, the built record carries the last content_type
\* set and the composition of all transformers applied to T::builder().
C7_BuilderHomomorphism ==
    bT \in ExtensionTypes =>
       /\ \A f \in Transformers(bT) :
             ExpectedResponseBuilder_build(
                 bT, ExpectedResponseBuilder_other(bT, ExpectedResponse_builder(bT), f))
             = [content_type |-> "", other |-> BuildOf(bT, Apply(f, BuilderOf(bT)))]
       /\ bld # NilV =>
             /\ \A f \in Transformers(bT) :
                   ExpectedResponseBuilder_other(bT, bld, f).content_type = bld.content_type
             /\ \A s \in ContentTypes :
                   ExpectedResponseBuilder_content_type(bld, s).other = bld.other
       /\ built # NilV =>
             built = [content_type |-> LastContentType(calls),
                      other |-> BuildOf(bT, Composed(calls, BuilderOf(bT)))]

C7_Witness ==
    /\ bT = "Response"
    /\ built # NilV
    /\ Len(calls) = 4
    /\ calls[1].c = "other" /\ calls[2].c = "content_type"
    /\ calls[3].c = "other" /\ calls[4].c = "content_type"
    /\ calls[2].s # calls[4].s
    /\ built.content_type = "text/bar"
    /\ built.other.status_code_value = Some(201)
    /\ Len(built.other.headers) = 1

(***************************************************************************)
(* Properties of SpecSerde.                                                *)
(***************************************************************************)
IsCons(T) == T.k = "struct" /\ T.name = "Cons"
IsTestA(T) == T.k = "struct" /\ T.name = "A"
IsMiniForm(T) == T.k = "struct" /\ T.name = "mini::Form"
IsHypermedia(T) ==
    /\ T.k = "struct"
    /\ T.name \in {"mini::Form", "mini::InteractionAffordance",
                   "mini::ExpectedResponse", "mini::AdditionalExpectedResponse"}

\* Object d binds exactly the keys of objects h and t, each to the value
\* one of its owners gave it.
IsUnionOf(d, h, t) ==
    /\ d.t = "obj" /\ h.t = "obj" /\ t.t = "obj"
    /\ DOMAIN d.o = DOMAIN h.o \cup DOMAIN t.o
    /\ \A key \in DOMAIN d.o :
          \/ key \in DOMAIN h.o /\ d.o[key] = h.o[key]
          \/ key \in DOMAIN t.o /\ d.o[key] = t.o[key]

\* C1: a serialized Cons is one flat object whose keys are exactly the keys
\* of its serialized head and of its serialized tail, each bound to the
\* value its owner emitted, at every nesting depth; neither "head" nor
\* "tail" nor the name of the enclosing flattened field ("b" of the test
\* struct A) appears as a key.
C1_ConsSerializesFlat ==
    phase = "serialized" =>
       /\ IsCons(ty) =>
             /\ IsUnionOf(doc, to_value(ty.fields[1].ty, val.head),
                               to_value(ty.fields[2].ty, val.tail))
             /\ DOMAIN doc.o \cap {"head", "tail"} = {}
       /\ IsTestA(ty) =>
             /\ IsUnionOf(doc, JObj(Put(EmptyMap, "a", JNum(val.a))),
                               to_value(ty.fields[2].ty, val.b))
             /\ DOMAIN doc.o \cap {"b", "head", "tail"} = {}

C1_Witness ==
    /\ phase = "serialized"
    /\ ty = TestA(Cons(TestC, Cons(TestB, Nil)))
    /\ val.b = add(new_head([foo |-> 42]), [bar |-> "42"])
    /\ DOMAIN doc.o = {"a", "foo", "bar"}
    /\ doc.o["foo"] = JNum(42)

\* C2: for every value r of a type whose flattened parts bind pairwise
\* disjoint keys (H-lists, Nil, hypermedia records and their vocabulary
\* payloads), deserialize(serialize(r)) succeeds and equals r.
C2_RoundTrip ==
    (phase = "deserialized" /\ Disjoint(ty)) => (out.ok /\ out.v = val)

C2_Witness ==
    /\ phase = "deserialized"
    /\ ty = Form(HttpForm, Response)
    /\ val.other.method_name = Some("Patch")
    /\ val.response # None /\ val.response[1].other.headers # <<>>
    /\ val.security = Some(<<"basic">>)
    /\ out.ok /\ out.v = val

\* C3: read from a flat object, the head and the tail of a Cons each take
\* their own fields from that same object and ignore the keys they do not
\* know, at any depth and for either nesting of the cells (key sets
\* disjoint, as the data model requires); a key known to no element, at the
\* top or inside a nested object, changes nothing and makes nothing fail.
C3_UnknownKeysIgnored ==
    (phase = "parsed" /\ pert.kind \in {"unknown", "nested"}) =>
       /\ out = from_value(ty, to_value(ty, val))
       /\ Disjoint(ty) =>
             /\ out.ok /\ out.v = val
             /\ IsCons(ty) =>
                   /\ from_value(ty.fields[1].ty, doc) = Ok(val.head)
                   /\ from_value(ty.fields[2].ty, doc) = Ok(val.tail)

C3_Witness ==
    /\ phase = "parsed"
    /\ pert = [kind |-> "unknown", key |-> "description"]
    /\ ty = Cons(Cons(TestB, TestC), Nil)
    /\ DOMAIN doc.o = {"foo", "bar", "description"}
    /\ out.ok
    /\ out.v.head.head.foo = 42
    /\ out.v.head.tail.bar = "42"

\* C4: Nil adds no key when flattened: Cons<X, Nil> serializes to the very
\* object X serializes to, a struct with a flattened Nil field to the
\* object of its other fields.  Reading Nil succeeds on every object and
\* takes no entry away: Nil itself reads from an object with keys in it,
\* and a type X flattened after a Nil (Cons<Nil, X>) or before one
\* (Cons<X, Nil>) reads from an object exactly what X flattened alone
\* reads from it, failing only where X fails.
C4_NilContributesNothing ==
    /\ phase = "serialized" =>
          /\ to_value(Cons(ty, Nil), new_head(val)) = doc
          /\ ty = TestA(Nil) => doc = JObj(Put(EmptyMap, "a", JNum(val.a)))
    /\ (phase \in {"deserialized", "parsed"} /\ doc.t = "obj") =>
          LET alone == DeFlat(ty, doc.o)
              after == from_value(Cons(Nil, ty), doc)
              before == from_value(Cons(ty, Nil), doc)
          IN /\ ty = Nil => out = Ok(NilV)
             /\ after.ok = alone.ok
             /\ before.ok = alone.ok
             /\ alone.ok => /\ after.v = ConsV(NilV, alone.v)
                            /\ before.v = ConsV(alone.v, NilV)

C4_Witness ==
    /\ phase = "parsed"
    /\ ty = Cons(TestB, Nil)
    /\ pert = [kind |-> "unknown", key |-> "description"]
    /\ DOMAIN doc.o = {"foo", "description"}
    /\ to_value(ty, val) = to_value(TestB, val.head)
    /\ out = Ok(ConsV(val.head, NilV))
    /\ from_value(Cons(Nil, ty), doc) = Ok(ConsV(NilV, val))

\* C5 (as claimed): a Cons whose head and tail bind the same key is an
\* error (KeyCollision): no object with the shared key is emitted, and no
\* value is built from an object in which both claim that key.
C5_KeyCollisionIsError ==
    /\ (phase = "serialized" /\ SharedKeys(ty) # {}) =>
          (doc.t # "obj" \/ SharedKeys(ty) \cap DOMAIN doc.o = {})
    /\ (phase \in {"deserialized", "parsed"} /\ doc.t = "obj"
        /\ SharedKeys(ty) \cap DOMAIN doc.o # {}) => ~out.ok

\* The indices of T's own one-or-many fields.
OneOrManyFields(T) ==
    IF T.k # "struct" THEN {}
    ELSE {n \in 1..Len(T.fields) : T.fields[n].as = "Option<OneOrMany>"}

\* A one-or-many field takes one string or an array of strings, and the
\* string x and the array [x] read as equal values.
OneOrManyAccepts ==
    /\ (phase = "parsed" /\ pert.kind = "array") =>
          /\ out.ok
          /\ out = from_value(ty, to_value(ty, val))
    /\ (phase = "deserialized" /\ OneOrManyFields(ty) # {}) => out.ok

\* C6 (as claimed): a one-or-many field takes one string or an array, x and
\* [x] read as equal values, and serializing again always emits an array,
\* also when the list holds exactly one element.
C6_ReserializesAsArray ==
    /\ OneOrManyAccepts
    /\ phase = "reserialized" =>
          \A key \in OneOrManyKeys(ty) \cap DOMAIN doc2.o : doc2.o[key].t = "arr"

\* C9: a Form read from an object without "contentType" has content_type
\* "application/json", whatever the extension types T and E; serialized
\* again it carries the key "contentType" with that value.
C9_DefaultContentType ==
    (IsMiniForm(ty) /\ pert = [kind |-> "removed", key |-> "contentType"]) =>
       /\ phase \in {"parsed", "reserialized"} =>
             /\ out.ok
             /\ out.v = [val EXCEPT !.content_type = "application/json"]
       /\ phase = "reserialized" =>
             /\ "contentType" \in DOMAIN doc2.o
             /\ doc2.o["contentType"] = JStr("application/json")

C9_Witness ==
    /\ phase = "reserialized"
    /\ ty = Form(HttpForm, Response)
    /\ pert = [kind |-> "removed", key |-> "contentType"]
    /\ val.content_type = "text/foo"
    /\ "contentType" \notin DOMAIN doc.o
    /\ out.v.content_type = "application/json"
    /\ doc2.o["contentType"] = JStr("application/json")

RECURSIVE NoNull(_)
NoNull(j) ==
    CASE j.t = "null" -> FALSE
      [] j.t = "arr" -> \A i \in 1..Len(j.a) : NoNull(j.a[i])
      [] j.t = "obj" -> \A key \in DOMAIN j.o : NoNull(j.o[key])
      [] OTHER -> TRUE

\* C10 (as claimed): the serialized form of a hypermedia record, with the
\* keys flattened in from its HTTP-vocabulary payloads, omits every absent
\* optional field: no key is bound to null.
C10_NoNullEmitted ==
    (phase = "serialized" /\ IsHypermedia(ty)) => NoNull(doc)

====
